---- MODULE Spec2Model ----
(***************************************************************************)
(* A model of src/apspace.py: the APSpace session object (master ticket,   *)
(* intake, current semester), its coroutines, and the remote services they *)
(* talk to.  Every `await self.session.post/get` is one step; a coroutine  *)
(* that awaits another coroutine pushes a frame on `stack`.                *)
(***************************************************************************)
EXTENDS Integers, Sequences, FiniteSets, TLC

-----------------------------------------------------------------------------
(* Bounds of the model *)

MaxIntakes == 3      \* longest intake history the courses endpoint reports
MaxRows    == 2      \* most sub_and_course_details rows of one intake
MaxModules == 2      \* longest attendance list the attendance endpoint reports
MaxLogins  == 1      \* master tickets the CAS server issues in one behaviour
MaxDepth   == 4      \* nested coroutine frames before RecursionError
MaxOtpLen  == 3      \* longest OTP string handed to take_attendance

-----------------------------------------------------------------------------
(* Python values *)

None == 0            \* self.ticket / self.intake / self.current_semester unset

V(ty, d) == [ty |-> ty, d |-> d]
VNone    == V("none", <<>>)
VInt(n)  == V("int", <<n>>)
NoRet    == V("noret", <<>>)

NoOutcome     == [k |-> "none", exc |-> "", msg |-> "", v |-> VNone]
Ok(v)         == [k |-> "ok", exc |-> "", msg |-> "", v |-> v]
Exc(exc, msg) == [k |-> "exc", exc |-> exc, msg |-> msg, v |-> VNone]

NoTicket == [m |-> None, svc |-> ""]

-----------------------------------------------------------------------------
(* The remote services *)

Statuses      == {200, 401, 500}     \* statuses a downstream endpoint answers
LoginStatuses == {201, 401}          \* statuses the ticket endpoint answers
PctValues     == {70, 80, 90}        \* PERCENTAGE values of attendance rows
ServerMsgs    == {"Bad credentials", "Class not found"}

ModuleRow   == [SEMESTER : {1, 2}, PERCENTAGE : PctValues]
ModuleLists == UNION {[1..n -> ModuleRow] : n \in 0..MaxModules}

Digits   == <<"0", "1", "2", "3", "4", "5", "6", "7", "8", "9">>
OtpChars == {"0", "4", "-", "a"}
OtpStrings == UNION {[1..n -> OtpChars] : n \in 0..MaxOtpLen}
OtpInts    == {-100, -5, 0, 42, 111, 999, 1000}

QueryTypes == {"previous_intake", "current_intake", "course_name",
               "course_type", "all_current", "other"}

VARIABLES
  ticket,            \* self.ticket
  intake,            \* self.intake
  current_semester,  \* self.current_semester
  headers,           \* self.headers['ticket'] (NoTicket while absent)
  stack,             \* coroutine frames of the call in progress, innermost last
  ret,               \* value a finished coroutine hands to its awaiter
  outcome,           \* how the last top-level call ended
  call,              \* the top-level call in progress or just finished
  log,               \* requests sent during that call, in order
  issued,            \* master tickets the CAS server has issued so far
  intakeCount,       \* server: number of intakes of the student
  rowCount,          \* server: sub_and_course_details rows per intake
  lastBody,          \* body of the last downstream 200 response
  parked,            \* the other in-flight call of the session, while suspended
  mainpc,            \* position of main(), "none" when the class is used directly
  client             \* self.session, the aiohttp.ClientSession: "open" or "closed"

vars == <<ticket, intake, current_semester, headers, stack, ret, outcome,
          call, log, issued, intakeCount, rowCount, lastBody, parked, mainpc,
          client>>

driver == <<parked, mainpc, client>>

session == <<ticket, intake, current_semester, headers>>
server  == <<issued, intakeCount, rowCount>>

NoBody == [kind |-> "none", rows |-> 0, modules |-> <<>>, data |-> "", msg |-> "",
           classcode |-> 0]

Frame(fn, pc, q, n) == [fn |-> fn, pc |-> pc, q |-> q, n |-> n, at |-> NoTicket]

Top == stack[Len(stack)]

Pop == SubSeq(stack, 1, Len(stack) - 1)

SetTop(f) == [stack EXCEPT ![Len(stack)] = f]

At(fn, pc) == stack # <<>> /\ Top.fn = fn /\ Top.pc = pc

\* a plausible slip: the OTP submission asks for the attendance-query ticket
ServiceOf_AttendanceForOtp(fn) ==
  CASE fn \in {"sign_otp", "get_attendance_percentage", "get_my_modules"} ->
         "student/attendance"
    [] fn \in {"get_semester_details", "get_current_semester"} ->
         "student/sub_and_course_details"
    [] fn = "get_intake_details" -> "student/courses"
    [] OTHER -> ""

ServiceOf(fn) ==
  CASE fn = "sign_otp" -> "attendix"
    [] fn \in {"get_attendance_percentage", "get_my_modules"} -> "student/attendance"
    [] fn \in {"get_semester_details", "get_current_semester"} ->
         "student/sub_and_course_details"
    [] fn = "get_intake_details" -> "student/courses"
    [] OTHER -> ""

EndpointOf(fn) ==
  CASE fn = "sign_otp" -> "graphql"
    [] fn \in {"get_attendance_percentage", "get_my_modules"} -> "attendance"
    [] fn \in {"get_semester_details", "get_current_semester"} ->
         "sub_and_course_details"
    [] fn = "get_intake_details" -> "courses"
    [] OTHER -> ""

Req(kind, ep, at, arg, otp, st) ==
  [kind |-> kind, ep |-> ep, at |-> at, arg |-> arg, otp |-> otp, st |-> st]

-----------------------------------------------------------------------------
(* Leaving and entering coroutines *)

DoRaise(exc, msg) ==
  /\ stack' = <<>>
  /\ ret' = NoRet
  /\ outcome' = Exc(exc, msg)

DoReturn(v) ==
  IF Len(stack) = 1
    THEN /\ stack' = <<>>
         /\ ret' = NoRet
         /\ outcome' = Ok(v)
    ELSE /\ stack' = Pop
         /\ ret' = v
         /\ outcome' = outcome

DoCall(waiting, callee) ==
  IF Len(stack) >= MaxDepth
    THEN DoRaise("RecursionError", "maximum recursion depth exceeded")
    ELSE /\ stack' = Append(SetTop(waiting), callee)
         /\ ret' = NoRet
         /\ outcome' = outcome

\* the student's record on the server: K intakes, rows[i] details rows of intake i
Records == UNION {{[K |-> k, rows |-> r] : r \in [1..k -> 0..MaxRows]} :
                  k \in 1..MaxIntakes}

\* the record held while a call that never queries it is in progress
DefaultRecord == [K |-> 1, rows |-> <<1>>]

NoCall == [op |-> "", q |-> "", n |-> None, s |-> <<>>]

Ready == stack = <<>> /\ call = NoCall

\* what belongs to one in-flight call
Context(st, r, o, c, l, b) ==
  [stack |-> st, ret |-> r, outcome |-> o, call |-> c, log |-> l, lastBody |-> b]

NoContext == Context(<<>>, NoRet, NoOutcome, NoCall, <<>>, NoBody)

Start(op, pc, q, n, s, rec) ==
  /\ Ready
  /\ call' = [op |-> op, q |-> q, n |-> n, s |-> s]
  /\ stack' = <<Frame(op, pc, q, n)>>
  /\ intakeCount' = rec.K
  /\ rowCount' = rec.rows
  /\ UNCHANGED <<session, issued, ret, outcome, log, lastBody>>
  /\ UNCHANGED driver

\* the caller has taken the result of the finished call and may call again
caller_continue ==
  /\ stack = <<>>
  /\ call # NoCall
  /\ call' = NoCall
  /\ outcome' = NoOutcome
  /\ log' = <<>>
  /\ lastBody' = NoBody
  /\ intakeCount' = DefaultRecord.K
  /\ rowCount' = DefaultRecord.rows
  /\ UNCHANGED <<session, issued, stack, ret>>
  /\ UNCHANGED driver

Downstream(fn, arg, otp, st) ==
  log' = Append(log, Req("down", EndpointOf(fn), Top.at, arg, otp, st))

-----------------------------------------------------------------------------
(* get_service_auth: exchange self.ticket for a ticket of the service *)

\* a plausible slip: the exchange consumes the stored master ticket
get_service_auth_ForgetsTicket ==
  /\ stack # <<>>
  /\ Top.pc = "auth"
  /\ LET st == [m |-> ticket, svc |-> ServiceOf(Top.fn)]
     IN  /\ log' = Append(log, Req("derive", "tickets", st, None, <<>>, 200))
         /\ stack' = SetTop([Top EXCEPT !.pc = "request", !.at = st])
  /\ ticket' = None
  /\ UNCHANGED <<intake, current_semester, headers, server, ret, outcome, call,
                 lastBody, driver>>

get_service_auth ==
  /\ stack # <<>>
  /\ Top.pc = "auth"
  /\ LET st == [m |-> ticket, svc |-> ServiceOf(Top.fn)]
     IN  /\ log' = Append(log, Req("derive", "tickets", st, None, <<>>, 200))
         /\ stack' = SetTop([Top EXCEPT !.pc = "request", !.at = st])
  /\ UNCHANGED <<session, server, ret, outcome, call, lastBody>>
  /\ UNCHANGED driver

-----------------------------------------------------------------------------
(* get_attendance_percentage *)

RECURSIVE SumPct(_, _)
SumPct(rows, sem) ==
  IF rows = <<>> THEN 0
  ELSE (IF Head(rows).SEMESTER = sem THEN Head(rows).PERCENTAGE ELSE 0)
       + SumPct(Tail(rows), sem)

RECURSIVE CountSem(_, _)
CountSem(rows, sem) ==
  IF rows = <<>> THEN 0
  ELSE (IF Head(rows).SEMESTER = sem THEN 1 ELSE 0) + CountSem(Tail(rows), sem)

\* round(total / count, 2), in hundredths; ties go to the even hundredth
Round2(total, count) ==
  LET n == total * 100
      f == n \div count
      r == n % count
  IN  IF 2 * r < count THEN f
      ELSE IF 2 * r > count THEN f + 1
      ELSE IF f % 2 = 0 THEN f ELSE f + 1

get_attendance_percentage ==
  /\ At("get_attendance_percentage", "request")
  /\ \E st \in Statuses :
       /\ Downstream("get_attendance_percentage", intake, <<>>, st)
       /\ CASE st = 200 ->
                 \E ms \in ModuleLists :
                   /\ lastBody' = [NoBody EXCEPT !.kind = "modules", !.modules = ms]
                   /\ LET total == SumPct(ms, current_semester)
                          count == CountSem(ms, current_semester)
                      IN  IF count = 0
                            THEN DoRaise("ZeroDivisionError", "division by zero")
                            ELSE DoReturn(V("float", <<Round2(total, count)>>))
            [] st = 401 ->
                 /\ DoRaise("HTTPUnauthorized", "APSpace Auth Ticket is invalid!")
                 /\ UNCHANGED lastBody
            [] OTHER ->
                 /\ DoReturn(VNone)
                 /\ UNCHANGED lastBody
  /\ UNCHANGED <<session, server, call>>
  /\ UNCHANGED driver

Call_get_attendance_percentage ==
  Start("get_attendance_percentage", "auth", "", None, <<>>, DefaultRecord)

-----------------------------------------------------------------------------
(* get_my_modules *)

RECURSIVE ModulesOf(_, _, _)
ModulesOf(rows, sem, i) ==
  IF i > Len(rows) THEN <<>>
  ELSE (IF rows[i].SEMESTER = sem THEN <<i>> ELSE <<>>) \o ModulesOf(rows, sem, i + 1)

get_my_modules ==
  /\ At("get_my_modules", "request")
  /\ \E st \in Statuses :
       /\ Downstream("get_my_modules", intake, <<>>, st)
       /\ CASE st = 200 ->
                 \E ms \in ModuleLists :
                   /\ lastBody' = [NoBody EXCEPT !.kind = "modules", !.modules = ms]
                   /\ DoReturn(V("list", ModulesOf(ms, current_semester, 1)))
            [] st = 401 ->
                 /\ DoRaise("HTTPUnauthorized", "APSpace Auth Ticket is invalid!")
                 /\ UNCHANGED lastBody
            [] OTHER ->
                 /\ DoReturn(VNone)
                 /\ UNCHANGED lastBody
  /\ UNCHANGED <<session, server, call>>
  /\ UNCHANGED driver

Call_get_my_modules ==
  Start("get_my_modules", "auth", "", None, <<>>, DefaultRecord)

-----------------------------------------------------------------------------
(* get_intake_details *)

\* the courses endpoint lists the intakes most recent first; intake i has code i
CoursesResponse == [i \in 1..intakeCount |-> i]

PreviousIntake(response) ==
  IF Len(response) > 1 THEN VInt(response[Len(response)]) ELSE VNone

IntakeQuery(query_type, response) ==
  CASE query_type = "previous_intake" -> PreviousIntake(response)
    [] query_type = "current_intake"  -> VInt(response[1])
    [] query_type = "course_name"     -> V("course_name", <<response[1]>>)
    [] query_type = "course_type"     -> V("course_type", <<response[1]>>)
    [] query_type = "all_current"     ->
         V("all_current", <<response[1], response[1], response[1]>>)
    [] OTHER -> VNone

get_intake_details ==
  /\ At("get_intake_details", "request")
  /\ \E st \in Statuses :
       /\ Downstream("get_intake_details", None, <<>>, st)
       /\ CASE st = 200 ->
                 /\ lastBody' = [NoBody EXCEPT !.kind = "courses", !.rows = intakeCount]
                 /\ DoReturn(IntakeQuery(Top.q, CoursesResponse))
            [] st = 401 ->
                 /\ DoRaise("HTTPUnauthorized", "APSpace Auth Ticket is invalid!")
                 /\ UNCHANGED lastBody
            [] OTHER ->
                 /\ DoReturn(VNone)
                 /\ UNCHANGED lastBody
  /\ UNCHANGED <<session, server, call>>
  /\ UNCHANGED driver

Call_get_intake_details ==
  \E q \in QueryTypes, rec \in Records :
    Start("get_intake_details", "auth", q, None, <<>>, rec)

-----------------------------------------------------------------------------
(* get_current_semester *)

\* row counts the sub_and_course_details endpoint may report for an intake
RowsOf(code) ==
  IF code \in 1..intakeCount THEN {rowCount[code]} ELSE 0..MaxRows

\* cumulative GPA (in hundredths) of row r of an intake
Gpa(code, r) == 100 * code + 10 * r

QueriedIntake(intake_code) == IF intake_code = None THEN intake ELSE intake_code

get_current_semester ==
  /\ At("get_current_semester", "request")
  /\ \E st \in Statuses :
       /\ Downstream("get_current_semester", QueriedIntake(Top.n), <<>>, st)
       /\ CASE st = 200 ->
                 \E temp \in RowsOf(QueriedIntake(Top.n)) :
                   /\ lastBody' = [NoBody EXCEPT !.kind = "details", !.rows = temp]
                   /\ CASE temp = 1 -> DoReturn(VInt(1))
                        [] temp = 2 -> DoReturn(VInt(2))
                        [] OTHER -> DoRaise("UnboundLocalError", "current_semester")
            [] st = 401 ->
                 /\ DoRaise("HTTPUnauthorized", "APSpace Auth Ticket is invalid!")
                 /\ UNCHANGED lastBody
            [] OTHER ->
                 /\ DoReturn(VNone)
                 /\ UNCHANGED lastBody
  /\ UNCHANGED <<session, server, call>>
  /\ UNCHANGED driver

Call_get_current_semester ==
  \E rec \in Records : \E code \in 0..rec.K :
    Start("get_current_semester", "auth", "", code, <<>>, rec)

-----------------------------------------------------------------------------
(* get_semester_details *)

get_semester_details ==
  /\ At("get_semester_details", "request")
  /\ \E st \in Statuses :
       /\ Downstream("get_semester_details", QueriedIntake(Top.n), <<>>, st)
       /\ CASE st = 200 ->
                 \E temp \in RowsOf(QueriedIntake(Top.n)) :
                   /\ lastBody' = [NoBody EXCEPT !.kind = "details", !.rows = temp]
                   /\ CASE temp = 1 ->
                             /\ current_semester' = 1
                             /\ DoCall([Top EXCEPT !.pc = "wait_prev"],
                                       Frame("get_intake_details", "auth",
                                             "previous_intake", None))
                        [] temp = 2 ->
                             /\ current_semester' = 2
                             /\ DoRaise("TypeError",
                                        "'coroutine' object is not subscriptable")
                        [] OTHER ->
                             /\ DoRaise("UnboundLocalError", "cgpa")
                             /\ UNCHANGED current_semester
            [] st = 401 ->
                 /\ DoRaise("HTTPUnauthorized", "APSpace Auth Ticket is invalid!")
                 /\ UNCHANGED <<lastBody, current_semester>>
            [] OTHER ->
                 /\ DoReturn(VNone)
                 /\ UNCHANGED <<lastBody, current_semester>>
  /\ UNCHANGED <<ticket, intake, headers, server, call>>
  /\ UNCHANGED driver

get_semester_details_prev ==
  /\ At("get_semester_details", "wait_prev")
  /\ ret # NoRet
  /\ IF ret.ty = "int"
       THEN DoCall([Top EXCEPT !.pc = "wait_rec"],
                   Frame("get_semester_details", "auth", "", ret.d[1]))
       ELSE DoReturn(V("pair", <<current_semester, 0>>))
  /\ UNCHANGED <<session, server, call, log, lastBody>>
  /\ UNCHANGED driver

get_semester_details_rec ==
  /\ At("get_semester_details", "wait_rec")
  /\ ret # NoRet
  /\ DoReturn(ret)
  /\ UNCHANGED <<session, server, call, log, lastBody>>
  /\ UNCHANGED driver

Call_get_semester_details ==
  \E rec \in Records : \E code \in 0..rec.K :
    Start("get_semester_details", "auth", "", code, <<>>, rec)

-----------------------------------------------------------------------------
(* login and load_details *)

\* self.session.post(self.ticket_url, data = payload) is sent
login_post ==
  /\ At("login", "post")
  /\ stack' = SetTop([Top EXCEPT !.pc = "posted"])
  /\ UNCHANGED <<session, server, ret, outcome, call, log, lastBody, driver>>

\* a plausible slip: a rejected login drops the ticket the session held
login_ForgetsTicket ==
  /\ At("login", "posted")
  /\ \E st \in LoginStatuses :
       /\ log' = Append(log, Req("login", "tickets", NoTicket, None, <<>>, st))
       /\ IF st = 201
            THEN /\ issued < MaxLogins
                 /\ issued' = issued + 1
                 /\ ticket' = issued + 1
                 /\ DoCall([Top EXCEPT !.pc = "wait_load"],
                           Frame("load_details", "begin", "", None))
                 /\ UNCHANGED lastBody
            ELSE /\ \E msg \in ServerMsgs :
                      lastBody' = [NoBody EXCEPT !.kind = "authentication_exceptions",
                                                 !.msg = msg]
                 /\ DoRaise("TypeError", "'coroutine' object is not subscriptable")
                 /\ ticket' = None
                 /\ UNCHANGED issued
  /\ UNCHANGED <<intake, current_semester, headers, intakeCount, rowCount, call>>
  /\ UNCHANGED driver

login ==
  /\ At("login", "posted")
  /\ \E st \in LoginStatuses :
       /\ log' = Append(log, Req("login", "tickets", NoTicket, None, <<>>, st))
       /\ IF st = 201
            THEN /\ issued < MaxLogins
                 /\ issued' = issued + 1
                 /\ ticket' = issued + 1
                 /\ DoCall([Top EXCEPT !.pc = "wait_load"],
                           Frame("load_details", "begin", "", None))
                 /\ UNCHANGED lastBody
            ELSE /\ \E msg \in ServerMsgs :
                      lastBody' = [NoBody EXCEPT !.kind = "authentication_exceptions",
                                                 !.msg = msg]
                 /\ DoRaise("TypeError", "'coroutine' object is not subscriptable")
                 /\ UNCHANGED <<issued, ticket>>
  /\ UNCHANGED <<intake, current_semester, headers, intakeCount, rowCount, call>>
  /\ UNCHANGED driver

login_done ==
  /\ At("login", "wait_load")
  /\ ret # NoRet
  /\ DoReturn(VNone)
  /\ UNCHANGED <<session, server, call, log, lastBody>>
  /\ UNCHANGED driver

load_details ==
  /\ At("load_details", "begin")
  /\ DoCall([Top EXCEPT !.pc = "wait_intake"],
            Frame("get_intake_details", "auth", "current_intake", None))
  /\ UNCHANGED <<session, server, call, log, lastBody>>
  /\ UNCHANGED driver

load_details_intake ==
  /\ At("load_details", "wait_intake")
  /\ ret # NoRet
  /\ intake' = (IF ret.ty = "int" THEN ret.d[1] ELSE None)
  /\ DoCall([Top EXCEPT !.pc = "wait_semester"],
            Frame("get_current_semester", "auth", "", None))
  /\ UNCHANGED <<ticket, current_semester, headers, server, call, log, lastBody>>
  /\ UNCHANGED driver

load_details_semester ==
  /\ At("load_details", "wait_semester")
  /\ ret # NoRet
  /\ current_semester' = (IF ret.ty = "int" THEN ret.d[1] ELSE None)
  /\ DoReturn(VNone)
  /\ UNCHANGED <<ticket, intake, headers, server, call, log, lastBody>>
  /\ UNCHANGED driver

Call_login ==
  \E rec \in Records : Start("login", "post", "", None, <<>>, rec)

-----------------------------------------------------------------------------
(* take_attendance and sign_otp *)

IsDigit(c) == \E i \in 1..10 : Digits[i] = c

DigitVal(c) == CHOOSE i \in 0..9 : Digits[i + 1] = c

AllDigits(s) == s # <<>> /\ \A i \in 1..Len(s) : IsDigit(s[i])

\* int(s) succeeds on an optionally signed run of decimal digits
IsInt(s) ==
  \/ AllDigits(s)
  \/ Len(s) >= 2 /\ s[1] \in {"-", "+"} /\ AllDigits(Tail(s))

RECURSIVE NatOf(_)
NatOf(s) ==
  IF s = <<>> THEN 0
  ELSE NatOf(SubSeq(s, 1, Len(s) - 1)) * 10 + DigitVal(s[Len(s)])

ParseInt(s) ==
  IF s[1] = "-" THEN 0 - NatOf(Tail(s))
  ELSE IF s[1] = "+" THEN NatOf(Tail(s))
  ELSE NatOf(s)

RECURSIVE DigitsOf(_)
DigitsOf(n) ==
  IF n < 10 THEN <<Digits[n + 1]>>
  ELSE DigitsOf(n \div 10) \o <<Digits[(n % 10) + 1]>>

RECURSIVE ZeroPad(_, _)
ZeroPad(s, w) == IF Len(s) >= w THEN s ELSE ZeroPad(<<"0">> \o s, w)

\* f'{otp:03d}'
Format03d(n) ==
  IF n >= 0 THEN ZeroPad(DigitsOf(n), 3)
  ELSE <<"-">> \o ZeroPad(DigitsOf(0 - n), 2)

\* a plausible slip: only over-long codes are rejected
BadOtpFormat_TooLongOnly(otp) == Len(otp) > 3

\* len(otp) != 3
BadOtpFormat(otp) == Len(otp) # 3

take_attendance ==
  /\ At("take_attendance", "check")
  /\ IF BadOtpFormat(call.s)
       THEN DoRaise("OTPError", "OTP Format Invalid!")
       ELSE IF ~IsInt(call.s)
         THEN DoRaise("ValueError", "invalid literal for int()")
         ELSE DoCall([Top EXCEPT !.pc = "wait_sign"],
                     Frame("sign_otp", "auth", "", ParseInt(call.s)))
  /\ UNCHANGED <<session, server, call, log, lastBody>>
  /\ UNCHANGED driver

take_attendance_done ==
  /\ At("take_attendance", "wait_sign")
  /\ ret # NoRet
  /\ DoReturn(ret)
  /\ UNCHANGED <<session, server, call, log, lastBody>>
  /\ UNCHANGED driver

\* shapes of the GraphQL payload's data section: the string "null", JSON null,
\* an empty object, or an updateAttendance record with attendance "Y" or "N"
DataKinds == {"null", "None", "{}", "Y", "N"}

ClassCodes == {1, 2}      \* classcode values of the payload

\* a plausible slip: only the string "null" counts as an empty data section
DataEmpty_StringOnly(data) == data = "null"

\* otp_response['data'] == "null" or not otp_response['data']
DataEmpty(data) == data = "null" \/ data \in {"None", "{}"}

sign_otp ==
  /\ At("sign_otp", "request")
  /\ headers' = Top.at
  /\ \E st \in Statuses :
       /\ log' = Append(log, Req("down", EndpointOf("sign_otp"), headers', None,
                                 Format03d(Top.n), st))
       /\ CASE st = 200 ->
                 \E data \in DataKinds, msg \in ServerMsgs, cc \in ClassCodes :
                   /\ lastBody' = [NoBody EXCEPT !.kind = "graphql", !.data = data,
                                                 !.msg = msg, !.classcode = cc]
                   /\ CASE DataEmpty(data) -> DoRaise("OTPError", msg)
                        [] data = "Y"    -> DoReturn(V("classcode", <<cc>>))
                        [] OTHER         -> DoReturn(VNone)
            [] st = 401 ->
                 /\ DoRaise("TypeError", "'coroutine' object is not subscriptable")
                 /\ UNCHANGED lastBody
            [] OTHER ->
                 /\ DoReturn(VNone)
                 /\ UNCHANGED lastBody
  /\ UNCHANGED <<ticket, intake, current_semester, server, call>>
  /\ UNCHANGED driver

Call_take_attendance ==
  \E s \in OtpStrings : Start("take_attendance", "check", "", None, s, DefaultRecord)

Call_sign_otp ==
  \E n \in OtpInts : Start("sign_otp", "auth", "", n, <<>>, DefaultRecord)

-----------------------------------------------------------------------------

Init ==
  /\ ticket = None
  /\ intake = None
  /\ current_semester = None
  /\ headers = NoTicket
  /\ stack = <<>>
  /\ ret = NoRet
  /\ outcome = NoOutcome
  /\ call = NoCall
  /\ log = <<>>
  /\ issued = 0
  /\ intakeCount = DefaultRecord.K
  /\ rowCount = DefaultRecord.rows
  /\ lastBody = NoBody
  /\ parked = NoContext
  /\ mainpc = "none"
  /\ client = "open"

Next ==
  \/ caller_continue
  \/ Call_login
  \/ Call_take_attendance
  \/ Call_sign_otp
  \/ Call_get_attendance_percentage
  \/ Call_get_semester_details
  \/ Call_get_current_semester
  \/ Call_get_intake_details
  \/ Call_get_my_modules
  \/ get_service_auth
  \/ login_post
  \/ login
  \/ login_done
  \/ load_details
  \/ load_details_intake
  \/ load_details_semester
  \/ take_attendance
  \/ take_attendance_done
  \/ sign_otp
  \/ get_attendance_percentage
  \/ get_semester_details
  \/ get_semester_details_prev
  \/ get_semester_details_rec
  \/ get_current_semester
  \/ get_intake_details
  \/ get_my_modules

Spec == Init /\ [][Next]_vars

-----------------------------------------------------------------------------
(* Two calls of one session in flight: asyncio runs one coroutine at a time *)
(* and may run the other one whenever the running one awaits the network.  *)

\* the running call awaits the network, or no call is running
Suspended ==
  IF stack = <<>> THEN TRUE ELSE Top.pc \in {"auth", "request", "posted"}

\* the event loop resumes the other call of the session
switch_task ==
  /\ mainpc = "none"
  /\ Suspended
  /\ parked # Context(stack, ret, outcome, call, log, lastBody)
  /\ parked' = Context(stack, ret, outcome, call, log, lastBody)
  /\ stack' = parked.stack
  /\ ret' = parked.ret
  /\ outcome' = parked.outcome
  /\ call' = parked.call
  /\ log' = parked.log
  /\ lastBody' = parked.lastBody
  /\ UNCHANGED <<session, server, mainpc, client>>

gather_login ==
  Start("login", "post", "", None, <<>>, DefaultRecord)

gather_sign_otp ==
  Start("sign_otp", "auth", "", 111, <<>>, DefaultRecord)

NextConcurrent ==
  \/ switch_task
  \/ gather_login
  \/ gather_sign_otp
  \/ Call_get_attendance_percentage
  \/ caller_continue
  \/ get_service_auth
  \/ login_post
  \/ login
  \/ login_done
  \/ load_details
  \/ load_details_intake
  \/ load_details_semester
  \/ sign_otp
  \/ get_attendance_percentage
  \/ get_current_semester
  \/ get_intake_details

SpecConcurrent == Init /\ [][NextConcurrent]_vars

-----------------------------------------------------------------------------
(* main: login, then sign_otp(111) inside try / except OTPError / finally *)

\* what main passes to login: the literal 'credentials', or the mapping of
\* username and password that login's signature asks for
CredentialKinds == {"str", "dict"}

\* await apspace_session.login(...), which is outside the try statement;
\* subscripting the literal with 'username' raises before any request
main_login ==
  /\ mainpc = "login"
  /\ Ready
  /\ \E creds \in CredentialKinds, rec \in Records :
       /\ call' = [op |-> "login", q |-> "", n |-> None, s |-> <<>>]
       /\ intakeCount' = rec.K
       /\ rowCount' = rec.rows
       /\ IF creds = "dict"
            THEN /\ stack' = <<Frame("login", "post", "", None)>>
                 /\ UNCHANGED outcome
            ELSE /\ stack' = <<>>
                 /\ outcome' = Exc("TypeError", "string indices must be integers")
  /\ mainpc' = "login_wait"
  /\ UNCHANGED <<session, issued, ret, log, lastBody, parked, client>>

\* login has finished: main enters the try statement, or the exception of
\* login leaves main
main_login_done ==
  /\ mainpc = "login_wait"
  /\ stack = <<>>
  /\ call # NoCall
  /\ IF outcome.k = "ok"
       THEN /\ mainpc' = "otp"
            /\ call' = NoCall
            /\ outcome' = NoOutcome
            /\ log' = <<>>
            /\ lastBody' = NoBody
            /\ intakeCount' = DefaultRecord.K
            /\ rowCount' = DefaultRecord.rows
       ELSE /\ mainpc' = "exit"
            /\ UNCHANGED <<call, outcome, log, lastBody, intakeCount, rowCount>>
  /\ UNCHANGED <<session, issued, stack, ret, parked, client>>

main_sign_otp ==
  /\ mainpc = "otp"
  /\ Ready
  /\ call' = [op |-> "sign_otp", q |-> "", n |-> 111, s |-> <<>>]
  /\ stack' = <<Frame("sign_otp", "auth", "", 111)>>
  /\ mainpc' = "otp_wait"
  /\ UNCHANGED <<session, server, ret, outcome, log, lastBody, parked, client>>

\* the finally clause runs however sign_otp ended
main_finally ==
  /\ mainpc = "otp_wait"
  /\ stack = <<>>
  /\ call # NoCall
  /\ client' = "closed"
  /\ mainpc' = "exit"
  /\ UNCHANGED <<session, server, stack, ret, outcome, call, log, lastBody, parked>>

InitMain ==
  /\ ticket = None
  /\ intake = None
  /\ current_semester = None
  /\ headers = NoTicket
  /\ stack = <<>>
  /\ ret = NoRet
  /\ outcome = NoOutcome
  /\ call = NoCall
  /\ log = <<>>
  /\ issued = 0
  /\ intakeCount = DefaultRecord.K
  /\ rowCount = DefaultRecord.rows
  /\ lastBody = NoBody
  /\ parked = NoContext
  /\ mainpc = "login"
  /\ client = "open"

NextMain ==
  \/ main_login
  \/ main_login_done
  \/ main_sign_otp
  \/ main_finally
  \/ get_service_auth
  \/ login_post
  \/ login
  \/ login_done
  \/ load_details
  \/ load_details_intake
  \/ load_details_semester
  \/ get_intake_details
  \/ get_current_semester
  \/ sign_otp

SpecMain == InitMain /\ [][NextMain]_vars

-----------------------------------------------------------------------------
(* Properties *)

Done == stack = <<>> /\ call # NoCall

IsDown(r)  == r.kind = "down"
IsLogin(r) == r.kind = "login"
IsDetails(r) == r.kind = "down" /\ r.ep = "sub_and_course_details"

Downs   == SelectSeq(log, IsDown)
Logins  == SelectSeq(log, IsLogin)
Details == SelectSeq(log, IsDetails)

AllDowns200 == \A i \in 1..Len(Downs) : Downs[i].st = 200

DownstreamOps == {"get_attendance_percentage", "get_semester_details",
                  "get_current_semester", "get_intake_details",
                  "get_my_modules", "sign_otp"}

\* C1: a downstream operation whose first attempt is answered 401 logs in
\* again exactly once and retries; if the retry is answered 200 the operation
\* returns the parsed result.
C1_RetryAfter401 ==
  (Done /\ call.op \in DownstreamOps /\ Downs # <<>> /\ Downs[1].st = 401) =>
    /\ Len(Logins) = 1
    /\ Len(Downs) >= 2
    /\ (Downs[2].st = 200 => outcome.k = "ok")

\* C2: a downstream operation that was answered 401 on every attempt ends
\* with AuthExpired, after its first attempt and its single retry and no
\* third request.
C2_AuthExpiredAfterRetry ==
  (Done /\ call.op \in DownstreamOps /\ Downs # <<>>
        /\ \A i \in 1..Len(Downs) : Downs[i].st = 401) =>
    /\ outcome.k = "exc"
    /\ outcome.exc = "AuthExpired"
    /\ Len(Downs) = 2

C4_ThreeCharOtp ==
  \A i \in 1..Len(log) :
    log[i].ep = "graphql" =>
      /\ Len(log[i].otp) = 3
      /\ (call.op = "take_attendance" /\ AllDigits(call.s)) => log[i].otp = call.s

\* C5: while get_semester_details resolves an intake with every response 200,
\* each further sub_and_course_details request names an intake strictly
\* earlier in the history (a larger position in the most-recent-first list)
\* than every request before it, so the recursion never runs out of depth.
C5_StrictlyEarlierIntake ==
  (call.op = "get_semester_details" /\ AllDowns200) =>
    /\ \A i, j \in 1..Len(Details) : i < j => Details[i].arg < Details[j].arg
    /\ ~(Done /\ outcome.exc = "RecursionError")

\* what resolveSemester is specified to return for the intake at position c
RECURSIVE Resolved(_)
Resolved(c) ==
  IF rowCount[c] = 2 THEN V("pair", <<2, Gpa(c, 1)>>)
  ELSE IF rowCount[c] = 1
    THEN (IF c < intakeCount THEN Resolved(c + 1) ELSE V("pair", <<1, 0>>))
    ELSE V("undefined", <<>>)

\* C6: with every response 200, get_semester_details returns (1, 0.00) for an
\* intake with one row and no previous intake, the previous intake's result
\* for an intake with one row and a previous intake, and (2, GPA of the
\* second-to-last row) for an intake with two rows.
C6_ResolvedResult ==
  (Done /\ call.op = "get_semester_details" /\ AllDowns200 /\ Details # <<>>
        /\ Details[1].arg \in 1..intakeCount
        /\ Resolved(Details[1].arg).ty = "pair") =>
    outcome = Ok(Resolved(Details[1].arg))

\* C7: a sub_and_course_details response with a row count outside {1, 2}
\* makes get_semester_details and get_current_semester fail with
\* DataShapeError.
C7_DataShapeError ==
  (Done /\ call.op \in {"get_semester_details", "get_current_semester"}
        /\ lastBody.kind = "details" /\ lastBody.rows \notin {1, 2}) =>
    /\ outcome.k = "exc"
    /\ outcome.exc = "DataShapeError"

\* C8: a downstream response whose status is neither 200 nor 401 ends the
\* operation with RemoteServiceError, never with a normal return.
C8_RemoteServiceError ==
  (Done /\ call.op \in DownstreamOps
        /\ \E i \in 1..Len(Downs) : Downs[i].st \notin {200, 401}) =>
    /\ outcome.k = "exc"
    /\ outcome.exc = "RemoteServiceError"

MatchingRows == {i \in 1..Len(lastBody.modules) :
                   lastBody.modules[i].SEMESTER = current_semester}

RECURSIVE PctOver(_)
PctOver(S) ==
  IF S = {} THEN 0
  ELSE LET i == CHOOSE x \in S : TRUE
       IN  lastBody.modules[i].PERCENTAGE + PctOver(S \ {i})

\* h hundredths is total / count rounded to two decimals
NearestHundredth(h, total, count) ==
  LET diff == 100 * total - h * count
  IN  2 * (IF diff < 0 THEN 0 - diff ELSE diff) <= count

\* C9: on a 200 response get_attendance_percentage returns the mean, rounded
\* to two decimals, of PERCENTAGE over the rows of the current semester, for
\* every list of modules.
C9_MeanOfCurrentSemester ==
  (Done /\ call.op = "get_attendance_percentage" /\ lastBody.kind = "modules") =>
    /\ outcome.k = "ok"
    /\ outcome.v.ty = "float"
    /\ MatchingRows # {} =>
         NearestHundredth(outcome.v.d[1], PctOver(MatchingRows),
                          Cardinality(MatchingRows))

\* C10: login answered with a status other than 201 fails with
\* CredentialsInvalid carrying the reason the server reported, after a single
\* request to the ticket endpoint.
C10_CredentialsInvalid ==
  (Done /\ call.op = "login" /\ Logins # <<>> /\ Logins[1].st # 201) =>
    /\ outcome.k = "exc"
    /\ outcome.exc = "CredentialsInvalid"
    /\ outcome.msg = lastBody.msg
    /\ Len(Logins) = 1

InLoginExchange(st) ==
  st # <<>> /\ st[Len(st)].fn = "login" /\ st[Len(st)].pc = "posted"

\* C11: at most one login exchange of the session is in progress at a time:
\* the two in-flight calls never both await the ticket endpoint's answer.
C11_SingleLoginInFlight ==
  ~(InLoginExchange(stack) /\ InLoginExchange(parked.stack))

\* the service whose ticket the endpoint of a request expects
RequiredService(ep) ==
  CASE ep = "graphql" -> "attendix"
    [] ep = "attendance" -> "student/attendance"
    [] ep = "sub_and_course_details" -> "student/sub_and_course_details"
    [] ep = "courses" -> "student/courses"
    [] OTHER -> "?"

TicketsMatch(l) ==
  \A i \in 1..Len(l) :
    l[i].kind = "down" =>
      /\ l[i].at.svc = RequiredService(l[i].ep)
      /\ \E j \in 1..(i - 1) : l[j].kind = "derive" /\ l[j].at = l[i].at

\* C12: every downstream request of either in-flight call carries a service
\* ticket that was derived earlier in that same call, for the service the
\* request is addressed to.
C12_TicketForOwnService ==
  TicketsMatch(log) /\ TicketsMatch(parked.log)

\* an attendance query is suspended with its ticket derived while an OTP
\* submission of the other call has put its attendix ticket in the shared headers
C12_Witness ==
  /\ parked.stack # <<>>
  /\ parked.stack[Len(parked.stack)].pc = "request"
  /\ parked.stack[Len(parked.stack)].at.svc = "student/attendance"
  /\ headers.svc = "attendix"
  /\ \E i \in 1..Len(log) : log[i].kind = "down" /\ log[i].ep = "graphql"

No401 == \A i \in 1..Len(log) : log[i].st # 401

\* C13: a step that derives a service ticket while no 401 has been received
\* leaves the stored master ticket as it was and starts no login: no frame is
\* pushed and the ticket endpoint issues nothing.
C13_DeriveKeepsTicket ==
  [][(No401 /\ Len(log') = Len(log) + 1 /\ log'[Len(log')].kind = "derive") =>
       /\ ticket' = ticket
       /\ issued' = issued
       /\ Len(stack') = Len(stack)
       /\ \A i \in 1..Len(log') : log'[i].kind = "login" => i <= Len(log)]_vars

\* the same master ticket has been exchanged twice for the same service
C13_Witness ==
  /\ No401
  /\ ticket # None
  /\ \E i, j \in 1..Len(log) :
       /\ i < j
       /\ log[i].kind = "derive" /\ log[j].kind = "derive"
       /\ log[i].at = log[j].at
       /\ log[i].at.m = ticket

C16_RejectedSubmissionFails ==
  (Done /\ call.op = "sign_otp" /\ Downs # <<>> /\ Downs[1].st = 200
        /\ lastBody.data = "N") =>
    outcome.k = "exc"

\* C17: get_intake_details("previous_intake") on a 200 response returns None
\* when the list holds one intake and otherwise the code of the second entry.
C17_PreviousIsSecondEntry ==
  (Done /\ call.op = "get_intake_details" /\ call.q = "previous_intake"
        /\ Downs # <<>> /\ Downs[1].st = 200) =>
    outcome = Ok(IF intakeCount = 1 THEN VNone ELSE VInt(CoursesResponse[2]))

\* C18: when login or get_semester_details has completed without error after
\* reading semester details, the stored current_semester is the number of
\* details rows (1 or 2) of the session's own current intake.
C18_SemesterOfCurrentIntake ==
  (Done /\ call.op \in {"login", "get_semester_details"} /\ outcome.k = "ok"
        /\ intake \in 1..intakeCount /\ rowCount[intake] \in {1, 2}
        /\ \E i \in 1..Len(log) :
             /\ log[i].kind = "down" /\ log[i].ep = "sub_and_course_details"
             /\ log[i].st = 200) =>
    current_semester = rowCount[intake]

\* C19: every derivation request and every downstream request uses a master
\* ticket that a successful login of the session obtained.
C19_TicketHeldWhenUsed ==
  \A i \in 1..Len(log) :
    log[i].kind \in {"derive", "down"} => log[i].at.m \in 1..issued

\* C20: the step in which the ticket endpoint rejects a login leaves ticket,
\* intake and current_semester as they were and the rejected exchange is the
\* only request of the call.
C20_FailedLoginChangesNothing ==
  [][(call.op = "login" /\ Len(log') = Len(log) + 1
        /\ log'[Len(log')].kind = "login" /\ log'[Len(log')].st # 201) =>
       /\ ticket' = ticket
       /\ intake' = intake
       /\ current_semester' = current_semester
       /\ Len(log') = 1
       /\ stack' = <<>>]_vars

\* a login was rejected while the session held a ticket, an intake and a semester
C20_Witness ==
  /\ Done
  /\ call.op = "login"
  /\ Len(log) = 1 /\ log[1].st # 201
  /\ ticket # None /\ intake # None /\ current_semester # None

\* C14: whenever main has ended, the HTTP client session has been closed.
C14_ClientClosedAtExit ==
  mainpc = "exit" => client = "closed"

====
